---- MODULE Spec2Model ----
(***************************************************************************)
(* A state-machine model of src/main.py (Daily Portrait Timelapse):        *)
(*   - CameraThread: the capture worker and its bounded frame queue,       *)
(*   - CameraView: the display tick, the scaled-pixbuf cache, capture /    *)
(*     save / discard,                                                     *)
(*   - Config: the in-memory map and its deferred save,                    *)
(*   - TimelapseView / MainWindow: the encode worker, the photo-save       *)
(*     worker and the callbacks they marshal to the GTK main loop.         *)
(* Python's None is modelled by a sentinel of the same shape as the value  *)
(* it stands for (NoFrame, NoPixbuf, <<>>, NoTimer).                       *)
(***************************************************************************)
EXTENDS Integers, Sequences, FiniteSets, TLC

\* ------------------------------------------------------------------ bounds

\* Frames the device delivers in one behaviour.
MaxFrames == 4
\* Photo-save workers alive at once.
MaxSaveThreads == 1
\* Workers running, callbacks queued and dialogs open at once, beyond which no
\* further worker is started (the code itself sets no limit).
MaxPending == 2
\* Last instant of the main loop's monotonic clock, in milliseconds.
MaxTime == 1250

\* --------------------------------------------------------- program constants

\* queue.Queue(maxsize=2)
QueueMaxSize == 2
\* GLib.timeout_add(500, self._do_save)
SaveDelayMs == 500
\* error_msg[:100]
ErrorDisplayLen == 100

\* ------------------------------------------------------------------ values

NoFrame == [seq |-> 0, w |-> 0, h |-> 0, layout |-> "none"]
NoPixbuf == [src |-> NoFrame, w |-> 0, h |-> 0]
NoTimer == 0

\* Resolutions the opened device may deliver (width, height).
Resolutions == { <<4, 3>>, <<3, 4>> }
\* Allocations of the drawing area (width, height).
Allocations == { <<8, 6>>, <<4, 6>> }

Min(a, b) == IF a <= b THEN a ELSE b

\* cv2.cvtColor(frame, COLOR_BGR2RGB) / COLOR_RGB2BGR: swaps the channel order.
CvtColor(frame, to) ==
  [frame EXCEPT !.layout = to]

\* ------------------------------------------------------------------ text
\* A Python str is a sequence of one-character strings.

Chars == << "'", "-", ".", "/", "0", "1", "2", "3", "4", "5", "6", "7", "8", "9",
            "\\", "_", "a", "b", "e", "f", "g", "i", "j", "l", "m", "n", "p",
            "s", "t", "x" >>

\* ord(c) for the characters above.
CodePoints == << 39, 45, 46, 47, 48, 49, 50, 51, 52, 53, 54, 55, 56, 57,
                 92, 95, 97, 98, 101, 102, 103, 105, 106, 108, 109, 110, 112,
                 115, 116, 120 >>

Ord(c) == CodePoints[CHOOSE i \in 1..Len(Chars) : Chars[i] = c]

\* a < b for str: Python compares code point by code point, a proper prefix first.
RECURSIVE StrLess(_, _)
StrLess(a, b) ==
  IF b = <<>> THEN FALSE
  ELSE IF a = <<>> THEN TRUE
  ELSE IF Ord(Head(a)) < Ord(Head(b)) THEN TRUE
  ELSE IF Ord(Head(a)) > Ord(Head(b)) THEN FALSE
  ELSE StrLess(Tail(a), Tail(b))

\* sorted(names): ascending by StrLess.
RECURSIVE Sorted(_)
Sorted(names) ==
  IF names = {} THEN <<>>
  ELSE LET least == CHOOSE x \in names : \A y \in names \ {x} : StrLess(x, y)
       IN <<least>> \o Sorted(names \ {least})

\* s.endswith(suffix)
EndsWith(s, suffix) ==
  /\ Len(s) >= Len(suffix)
  /\ SubSeq(s, Len(s) - Len(suffix) + 1, Len(s)) = suffix

\* s.startswith(prefix)
StartsWith(s, prefix) ==
  /\ Len(s) >= Len(prefix)
  /\ SubSeq(s, 1, Len(prefix)) = prefix

\* s[:n]
Take(s, n) == SubSeq(s, 1, Min(n, Len(s)))

\* The sequence without its i-th element (a thread that has ended).
Without(s, i) == SubSeq(s, 1, i - 1) \o SubSeq(s, i + 1, Len(s))

\* photo.replace("'", "'\\''"): every single quote becomes the four characters '\''
RECURSIVE Escape(_)
Escape(s) ==
  IF s = <<>> THEN <<>>
  ELSE (IF Head(s) = "'" THEN << "'", "\\", "'", "'" >> ELSE << Head(s) >>)
       \o Escape(Tail(s))

\* One decimal digit as a character, and %02d / %04d formatting.
Digit(d) == << "0", "1", "2", "3", "4", "5", "6", "7", "8", "9" >>[d + 1]

RECURSIVE Pad(_, _)
Pad(n, width) ==
  IF width = 0 THEN <<>> ELSE Pad(n \div 10, width - 1) \o << Digit(n % 10) >>

\* Wall-clock instants datetime.now() may return, in order.
Instants == << [Y |-> 2024, M |-> 1, D |-> 1, h |-> 9, m |-> 0, s |-> 0],
               [Y |-> 2024, M |-> 1, D |-> 1, h |-> 9, m |-> 0, s |-> 1],
               [Y |-> 2024, M |-> 1, D |-> 2, h |-> 9, m |-> 0, s |-> 0] >>

\* strftime('%Y-%m-%d')
StrfDate(t) == Pad(t.Y, 4) \o <<"-">> \o Pad(t.M, 2) \o <<"-">> \o Pad(t.D, 2)

\* strftime('%Y-%m-%d_%H-%M-%S')
StrfPhoto(t) ==
  StrfDate(t) \o <<"_">> \o Pad(t.h, 2) \o <<"-">> \o Pad(t.m, 2) \o <<"-">> \o Pad(t.s, 2)

\* strftime('%Y%m%d_%H%M%S')
StrfVideo(t) ==
  Pad(t.Y, 4) \o Pad(t.M, 2) \o Pad(t.D, 2) \o <<"_">> \o Pad(t.h, 2) \o Pad(t.m, 2) \o Pad(t.s, 2)

ExtJpg == << ".", "j", "p", "g" >>
ExtPng == << ".", "p", "n", "g" >>

\* f"{today}.jpg"
PhotoName(t) == StrfPhoto(t) \o ExtJpg

\* f"timelapse_{...}.mp4"
VideoName(t) ==
  << "t", "i", "m", "e", "l", "a", "p", "s", "e", "_" >> \o StrfVideo(t) \o << ".", "m", "p", "4" >>

\* 'filelist.txt'
ListFileName == << "f", "i", "l", "e", "l", "i", "s", "t", ".", "t", "x", "t" >>

\* A filter that takes every file.
IsAnyFile(f) == TRUE

\* f.endswith(('.jpg', '.png'))
IsPhoto(f) == EndsWith(f, ExtJpg) \/ EndsWith(f, ExtPng)

\* [f for f in os.listdir(photos_dir) if f.endswith(('.jpg', '.png'))]
PhotosIn(files) == { f \in files : IsPhoto(f) }

\* ------------------------------------------------------------------ state

VARIABLES
  \* process and GTK main loop
  app,              \* "running" | "quit" (after Gtk.main_quit) | "exited"
  idle_queue,       \* GLib.idle_add callbacks not yet dispatched, FIFO
  modal,            \* stack of open dialog.run() loops
  \* CameraThread
  cam_pc,           \* position of CameraThread.run
  camera,           \* "none" | "opened" | "unopened" | "released"
  resolution,       \* (width, height) of the frames the opened device delivers
  running,          \* CameraThread.running
  frame_queue,      \* CameraThread.frame_queue
  frame_rgb,        \* run's local: the frame about to be pushed
  produced,         \* frames read from the device so far
  offered,          \* seq of the last frame handed to put_nowait
  \* CameraView
  camera_thread,    \* CameraView.camera_thread is not None
  tick_active,      \* the 50 ms update_frame source is installed
  ui_pc,            \* position of the main loop inside update_frame
  gf_frame,         \* get_frame's local `frame`
  last_get,         \* record of the last completed get_frame call
  preview_mode, current_frame, captured_frame,
  cached_pixbuf, last_frame_size, alloc, screen,
  capture_button, save_button, discard_button, guide_toggle,
  dragging,
  pointer,          \* position (x, y) of the last pointer event on the drawing area
  save_threads,     \* photo-save workers (MainWindow.on_photo_taken)
  \* Config
  config,           \* [data, save_pending, save_timer]
  config_file,      \* the document on disk
  now,              \* monotonic clock of the main loop, ms
  timeouts,         \* GLib timeout sources of Config: id -> due time
  next_source,      \* next GLib source id
  save_log,         \* observation of the set calls and the writes
  \* TimelapseView / file system
  fs,               \* directory -> set of file names
  filelist,         \* directory -> content of filelist.txt
  wall,             \* index of the current wall-clock instant
  duration_adj,     \* the duration slider, hundredths of a second
  create_button, status_label, progress,
  encode_threads,   \* encode workers that have not ended
  enc_done          \* the encode worker that ended last

cam_vars == <<cam_pc, camera, resolution, running, frame_queue, frame_rgb, produced, offered>>
view_vars == <<camera_thread, tick_active, ui_pc, gf_frame, last_get, preview_mode,
               current_frame, captured_frame, cached_pixbuf, last_frame_size,
               alloc, screen, capture_button, save_button, discard_button,
               guide_toggle, dragging, pointer>>
cfg_vars == <<config, config_file, now, timeouts, next_source, save_log>>
tl_vars == <<fs, filelist, wall, duration_adj, create_button, status_label,
             progress, encode_threads, enc_done>>
loop_vars == <<app, idle_queue, modal>>
vars == <<loop_vars, cam_vars, view_vars, save_threads, cfg_vars, tl_vars>>

\* ------------------------------------------------------------------ Config
\* Floats of the guide are kept in thousandths (0.5 is 500); a directory is
\* named by a string.

DailyPortraits == << "a" >>
Other == << "b" >>
Dirs == { DailyPortraits, Other }

\* os.path.join(directory, name) and os.path.basename(path)
PathJoin(dir, name) == dir \o << "/" >> \o name

RECURSIVE Basename(_)
Basename(path) ==
  IF \A i \in 1..Len(path) : path[i] # "/" THEN path ELSE Basename(Tail(path))

\* Config.__init__: self.data before load().
DefaultData ==
  [ photos_directory |-> DailyPortraits,
    guide_enabled    |-> TRUE,
    guide_x          |-> 500,
    guide_y          |-> 500,
    guide_width      |-> 300,
    guide_height     |-> 400 ]

\* A document with no key.
EmptyDoc == [k \in {} |-> 0]

\* JSON null in the place of a number (Python None).
NoNumber == -1

\* The config file: "missing" (os.path.exists is false), "corrupt" (json.load
\* raises: not JSON, or empty), "ok" (a JSON object, doc), "array" (a JSON
\* array, items).
File(status, doc, items) == [status |-> status, doc |-> doc, items |-> items]
NoFile == File("missing", EmptyDoc, << >>)
Document(data) == File("ok", data, << >>)

\* An element of a JSON array: a [key, value] pair, or anything else.
Pair(key, value) == [pair |-> TRUE, key |-> key, value |-> value]
NotAPair == [pair |-> FALSE, key |-> "", value |-> 0]

\* The config file Config.load may find.
ConfigFiles ==
  { NoFile,
    File("corrupt", EmptyDoc, << >>),
    Document([guide_x |-> 250]),
    Document([guide_enabled |-> FALSE, theme |-> "dark"]),
    Document([guide_y |-> NoNumber]),
    File("array", EmptyDoc, << Pair("guide_x", 250), NotAPair >>) }

\* dict.update(loaded)
DictUpdate(data, loaded) ==
  [k \in (DOMAIN data) \cup (DOMAIN loaded) |->
     IF k \in DOMAIN loaded THEN loaded[k] ELSE data[k]]

\* dict.update(iterable): the elements are stored one by one; the first that
\* is not a pair raises, and what was stored before it stays.
RECURSIVE UpdateFromSeq(_, _)
UpdateFromSeq(data, items) ==
  IF items = << >> \/ ~Head(items).pair THEN data
  ELSE UpdateFromSeq(DictUpdate(data, [k \in {Head(items).key} |-> Head(items).value]),
                     Tail(items))

\* dict.update(iterable) raises.
UpdateRaises(items) == \E i \in 1..Len(items) : ~items[i].pair

\* A load under which a null number in the file deletes the key.
LoadDropsNull(data, file) ==
  IF file.status = "ok"
  THEN LET nulls == { k \in (DOMAIN file.doc) \cap {"guide_x", "guide_y", "guide_width",
                                                     "guide_height"} :
                        file.doc[k] = NoNumber }
           merged == DictUpdate(data, file.doc)
       IN [k \in (DOMAIN merged) \ nulls |-> merged[k]]
  ELSE data

\* Config.load: overlay the file on the defaults; any exception is printed.
Load(data, file) ==
  CASE file.status = "ok" -> DictUpdate(data, file.doc)
    [] file.status = "array" -> UpdateFromSeq(data, file.items)
    [] OTHER -> data

\* Config.load reaches its except clause.
LoadRaises(file) ==
  \/ file.status = "corrupt"
  \/ file.status = "array" /\ UpdateRaises(file.items)

\* Config.__init__
NewConfig(file) ==
  [ data |-> Load(DefaultData, file), save_pending |-> FALSE, save_timer |-> NoTimer ]

\* GLib.source_remove(id)
SourceRemove(sources, id) == { s \in sources : s.id # id }

\* Config.save on the bundle g = [config, timeouts, next_source] at time t.
ConfigSave(g, t) ==
  IF ~g.config.save_pending
  THEN [ config |-> [g.config EXCEPT !.save_pending = TRUE,
                                     !.save_timer = g.next_source],
         timeouts |-> (IF g.config.save_timer # NoTimer
                       THEN SourceRemove(g.timeouts, g.config.save_timer)
                       ELSE g.timeouts)
                      \cup { [id |-> g.next_source, due |-> t + SaveDelayMs] },
         next_source |-> g.next_source + 1 ]
  ELSE g

\* Config.set
ConfigSet(g, key, value, t) ==
  ConfigSave([g EXCEPT !.config.data = DictUpdate(@, [k \in {key} |-> value])], t)

\* Config.get
ConfigGet(key) == config.data[key]

\* The bundle of the current state.
Glib == [config |-> config, timeouts |-> timeouts, next_source |-> next_source]

\* (key, value) pairs the handlers pass to Config.set.
SetInputs ==
  { <<"guide_x", 250>>, <<"guide_x", 750>>, <<"guide_enabled", FALSE>>,
    <<"photos_directory", Other>> }

\* Observation of Config: the time of the last set, the writes persisted since
\* the current burst of sets began, the quiet time before the last write, the
\* file Config.__init__ found, and the time _do_save last ran.
NoSaveLog == [last_set |-> -1, burst_writes |-> 0, write_gap |-> -1, failed |-> FALSE,
              found |-> NoFile, last_try |-> -1]

LogSet(log, t) ==
  [log EXCEPT !.last_set = t,
              !.burst_writes = IF log.last_set < 0 \/ t - log.last_set >= SaveDelayMs
                               THEN 0 ELSE @]

\* A call of Config.set from the main loop.
SetConfig(key, value) ==
  /\ app = "running"
  /\ LET g == ConfigSet(Glib, key, value, now)
     IN /\ config' = g.config
        /\ timeouts' = g.timeouts
        /\ next_source' = g.next_source
  /\ save_log' = LogSet(save_log, now)
  /\ UNCHANGED <<config_file, now>>

\* Config._do_save, dispatched by the main loop when its timeout is due.
\* open() may fail (file untouched), json.dump may fail (file truncated).
DoSave(outcome) ==
  /\ app = "running"
  /\ \E s \in timeouts :
       /\ s.due <= now
       /\ timeouts' = timeouts \ {s}    \* returns False: the source is removed
  /\ IF outcome = "ok"
     THEN /\ config_file' = Document(config.data)
          /\ config' = [config EXCEPT !.save_pending = FALSE, !.save_timer = NoTimer]
          /\ save_log' = [save_log EXCEPT !.burst_writes = @ + 1,
                                          !.write_gap = now - save_log.last_set,
                                          !.last_try = now]
     ELSE /\ config_file' = IF outcome = "dump_fails"
                            THEN File("corrupt", EmptyDoc, << >>)
                            ELSE config_file
          /\ config' = config
          /\ save_log' = [save_log EXCEPT !.failed = TRUE, !.last_try = now]
  /\ UNCHANGED <<now, next_source>>

\* Time passes on the main loop, by at most dt: a timeout that falls due is
\* dispatched before time moves on.
TimeSteps == { 250 }

Advance(dt) ==
  /\ app = "running"
  /\ now + dt <= MaxTime
  /\ \A s \in timeouts : s.due > now
  /\ now' = IF \E s \in timeouts : s.due < now + dt
            THEN CHOOSE d \in { s.due : s \in timeouts } :
                   \A s \in timeouts : d <= s.due
            ELSE now + dt
  /\ UNCHANGED <<config, config_file, timeouts, next_source, save_log>>

\* ------------------------------------------------------------------ Init

NoGet == [mark |-> 0, at |-> 0, n |-> 0, result |-> NoFrame, done |-> FALSE]
NoScreen == [pixbuf |-> NoPixbuf, x |-> 0, y |-> 0, frame |-> NoFrame,
             width |-> 0, height |-> 0]
NoStatus == [kind |-> "", text |-> << >>]
NoThread == [ photos_dir |-> << >>, photos |-> << >>, duration |-> 0, pc |-> "none",
           output_file |-> << >>, wrote |-> FALSE, launched |-> FALSE,
           returncode |-> 0, stderr |-> << >> ]

\* What is kept of an encode worker that has ended.
NoJob == [ photos_dir |-> << >>, output_file |-> << >>, wrote |-> FALSE,
           launched |-> FALSE, returncode |-> 0, stderr |-> << >>,
           remove_failed |-> FALSE ]
Ended(t, remove_failed) ==
  [ photos_dir |-> t.photos_dir, output_file |-> t.output_file, wrote |-> t.wrote,
    launched |-> t.launched, returncode |-> t.returncode, stderr |-> t.stderr,
    remove_failed |-> remove_failed ]

Idle(fn, arg) == [fn |-> fn, arg |-> arg]

\* Files a photos directory may hold at startup.
InitialFiles ==
  { {},
    { PhotoName(Instants[1]) },
    { << "b", ".", "p", "n", "g" >>, << "a", "'", "b", ".", "j", "p", "g" >>,
      << "b", ".", "j", "p", "g" >>, << "n", ".", "t", "x", "t" >> } }

\* The state after MainWindow() and main() up to Gtk.main(), on the
\* environment given: the config file, the content of the photos directory and
\* the content of the other directories.
InitFs(file, files, others) ==
  /\ app = "running"
  /\ idle_queue = << Idle("update_photo_count", << >>),
                     Idle("check_today_photo", << >>),
                     Idle("init_camera", << >>) >>
  /\ modal = << >>
  /\ cam_pc = "unstarted" /\ camera = "none" /\ running = FALSE
  /\ resolution = << 0, 0 >>
  /\ frame_queue = << >> /\ frame_rgb = NoFrame /\ produced = 0 /\ offered = 0
  /\ camera_thread = FALSE /\ tick_active = FALSE
  /\ ui_pc = "idle" /\ gf_frame = NoFrame /\ last_get = NoGet
  /\ preview_mode = FALSE /\ current_frame = NoFrame /\ captured_frame = NoFrame
  /\ cached_pixbuf = NoPixbuf /\ last_frame_size = << >>
  /\ alloc = << 8, 6 >> /\ screen = NoScreen
  /\ capture_button = TRUE /\ save_button = FALSE /\ discard_button = FALSE
  /\ guide_toggle = TRUE /\ dragging = FALSE /\ pointer = << 0, 0 >>
  /\ save_threads = << >>
  /\ config = NewConfig(file) /\ config_file = file
  /\ now = 0 /\ timeouts = {} /\ next_source = 1
  /\ save_log = [NoSaveLog EXCEPT !.found = file]
  /\ fs = [d \in Dirs |-> IF d = NewConfig(file).data.photos_directory THEN files
                                                                        ELSE others]
  /\ filelist = [d \in Dirs |-> << >>]
  /\ wall = 1 /\ duration_adj = 20
  /\ create_button = TRUE /\ status_label = NoStatus /\ progress = 0
  /\ encode_threads = << >> /\ enc_done = NoJob

InitOn(file, files) == InitFs(file, files, {})

Init == \E file \in ConfigFiles, files \in InitialFiles : InitOn(file, files)

\* ------------------------------------------------------------ CameraThread

Alive == app # "exited"

\* A worker that goes on to its loop whether or not the device opened.
CamOpenAnyway(outcome, res) ==
  /\ Alive /\ cam_pc = "start"
  /\ camera' = IF outcome = "raises" THEN "none" ELSE outcome
  /\ resolution' = IF outcome = "opened" THEN res ELSE resolution
  /\ cam_pc' = "set_running"
  /\ UNCHANGED <<running, frame_queue, frame_rgb, produced, offered>>

\* run: self.camera = cv2.VideoCapture(0); if not isOpened(): return.
\* The constructor may also raise (camera stays None).
CamOpen(outcome, res) ==
  /\ Alive /\ cam_pc = "start"
  /\ camera' = IF outcome = "raises" THEN "none" ELSE outcome
  /\ resolution' = IF outcome = "opened" THEN res ELSE resolution
  /\ cam_pc' = IF outcome = "opened" THEN "set_running" ELSE "finally"
  /\ UNCHANGED <<running, frame_queue, frame_rgb, produced, offered>>

\* run: self.running = True
CamSetRunning ==
  /\ Alive /\ cam_pc = "set_running"
  /\ running' = TRUE
  /\ cam_pc' = "loop"
  /\ UNCHANGED <<camera, resolution, frame_queue, frame_rgb, produced, offered>>

\* run: while self.running
CamLoop ==
  /\ Alive /\ cam_pc = "loop"
  /\ cam_pc' = IF running THEN "read" ELSE "finally"
  /\ UNCHANGED <<camera, resolution, running, frame_queue, frame_rgb, produced, offered>>

\* run: ret, frame = self.camera.read() with ret true, then cvtColor to RGB.
CamReadFrame ==
  /\ Alive /\ cam_pc = "read"
  /\ produced < MaxFrames
  /\ produced' = produced + 1
  /\ frame_rgb' = CvtColor([seq |-> produced + 1, w |-> resolution[1], h |-> resolution[2],
                            layout |-> "BGR"], "RGB")
  /\ cam_pc' = "put"
  /\ UNCHANGED <<camera, resolution, running, frame_queue, offered>>

\* A worker that closes the device when a read fails and goes on reading.
CamReadFailReleases(outcome) ==
  /\ Alive /\ cam_pc = "read"
  /\ camera' = "released"
  /\ cam_pc' = IF outcome = "raises" THEN "finally" ELSE "loop"
  /\ UNCHANGED <<resolution, running, frame_queue, frame_rgb, produced, offered>>

\* run: read() returns ret false (then time.sleep(0.01)), or raises.
CamReadFail(outcome) ==
  /\ Alive /\ cam_pc = "read"
  /\ cam_pc' = IF outcome = "raises" THEN "finally" ELSE "loop"
  /\ UNCHANGED <<camera, resolution, running, frame_queue, frame_rgb, produced, offered>>

\* A put that makes room by evicting the oldest frame instead of raising.
PutNowaitEvictOldest(q, item) ==
  IF Len(q) >= QueueMaxSize THEN [full |-> FALSE, q |-> Append(Tail(q), item)]
  ELSE [full |-> FALSE, q |-> Append(q, item)]

\* queue.put_nowait: appends, or raises queue.Full when maxsize items are held.
PutNowait(q, item) ==
  IF Len(q) >= QueueMaxSize THEN [full |-> TRUE, q |-> q]
  ELSE [full |-> FALSE, q |-> Append(q, item)]

\* run: try: put_nowait(frame_rgb) except queue.Full: pass
CamPut ==
  /\ Alive /\ cam_pc = "put"
  /\ frame_queue' = PutNowait(frame_queue, frame_rgb).q
  /\ offered' = frame_rgb.seq
  /\ frame_rgb' = NoFrame
  /\ cam_pc' = "loop"
  /\ UNCHANGED <<camera, resolution, running, produced>>

\* run: finally: if self.camera: self.camera.release()
CamFinally ==
  /\ Alive /\ cam_pc = "finally"
  /\ camera' = IF camera # "none" THEN "released" ELSE camera
  /\ cam_pc' = "done"
  /\ UNCHANGED <<resolution, running, frame_queue, frame_rgb, produced, offered>>

\* CameraThread.stop
Stop == running' = FALSE

CamStep ==
  \/ \E o \in {"opened", "unopened", "raises"}, res \in Resolutions : CamOpen(o, res)
  \/ CamSetRunning
  \/ CamLoop
  \/ CamReadFrame
  \/ \E o \in {"no_frame", "raises"} : CamReadFail(o)
  \/ CamPut
  \/ CamFinally

\* -------------------------------------------------------------- CameraView

\* The main loop dispatches one callback at a time; input events reach the
\* main window only while no dialog.run() is open.
LoopFree == app = "running" /\ ui_pc = "idle"
InputFree == LoopFree /\ modal = << >>

\* on_draw: scale = min(width / w, height / h); new_w, new_h = int(w * scale), int(h * scale)
ScaledSize(w, h, width, height) ==
  IF width * h <= height * w
  THEN << width, (h * width) \div w >>
  ELSE << (w * height) \div h, height >>

\* A scaled surface made of no frame.
ScaleSimpleBlank(frame, new_w, new_h) == [src |-> NoFrame, w |-> new_w, h |-> new_h]

\* Pixbuf.new_from_data(frame).scale_simple(new_w, new_h)
ScaleSimple(frame, new_w, new_h) == [src |-> frame, w |-> new_w, h |-> new_h]

\* on_draw: frame_to_draw
FrameToDraw == IF preview_mode THEN captured_frame ELSE current_frame

\* on_draw: the cache is regenerated iff the size tuple changed or it is None.
CacheStale(frame_size) == last_frame_size # frame_size \/ cached_pixbuf = NoPixbuf

\* CameraView.on_draw (the guide ellipse is stroked over the image afterwards).
OnDraw ==
  /\ LoopFree
  /\ LET width == alloc[1]
         height == alloc[2]
         f == FrameToDraw
     IN IF f # NoFrame
        THEN LET new == ScaledSize(f.w, f.h, width, height)
                 frame_size == << f.w, f.h, new[1], new[2] >>
                 pixbuf == IF CacheStale(frame_size)
                           THEN ScaleSimple(f, new[1], new[2])
                           ELSE cached_pixbuf
             IN /\ cached_pixbuf' = pixbuf
                /\ last_frame_size' = IF CacheStale(frame_size)
                                      THEN frame_size ELSE last_frame_size
                /\ screen' = [pixbuf |-> pixbuf,
                              x |-> (width - new[1]) \div 2,
                              y |-> (height - new[2]) \div 2,
                              frame |-> f, width |-> width, height |-> height]
        ELSE /\ screen' = NoScreen
             /\ UNCHANGED <<cached_pixbuf, last_frame_size>>
  /\ UNCHANGED <<camera_thread, tick_active, ui_pc, gf_frame, last_get, preview_mode,
                 current_frame, captured_frame, alloc, capture_button, save_button,
                 discard_button, guide_toggle, dragging, pointer>>

\* The drawing area is given another allocation.
Resize(a) ==
  /\ LoopFree
  /\ a # alloc
  /\ alloc' = a
  /\ UNCHANGED <<camera_thread, tick_active, ui_pc, gf_frame, last_get, preview_mode,
                 current_frame, captured_frame, cached_pixbuf, last_frame_size, screen,
                 capture_button, save_button, discard_button, guide_toggle, dragging, pointer>>

\* CameraView.update_frame, up to the call of get_frame.
UpdateFrame ==
  /\ LoopFree /\ tick_active
  /\ IF camera_thread /\ running /\ ~preview_mode
     THEN /\ ui_pc' = "get_frame"
          /\ gf_frame' = NoFrame
          /\ last_get' = [last_get EXCEPT !.at = offered, !.n = offered - last_get.mark,
                                          !.done = FALSE]
     ELSE /\ ui_pc' = "uf_return"
          /\ UNCHANGED <<gf_frame, last_get>>
  /\ UNCHANGED <<camera_thread, tick_active, preview_mode, current_frame, captured_frame,
                 cached_pixbuf, last_frame_size, alloc, screen, capture_button,
                 save_button, discard_button, guide_toggle, dragging, pointer>>

\* update_frame: return self.camera_thread and self.camera_thread.running
UpdateFrameReturn ==
  /\ app = "running" /\ ui_pc = "uf_return"
  /\ tick_active' = (camera_thread /\ running)
  /\ ui_pc' = "idle"
  /\ UNCHANGED <<camera_thread, gf_frame, last_get, preview_mode, current_frame,
                 captured_frame, cached_pixbuf, last_frame_size, alloc, screen,
                 capture_button, save_button, discard_button, guide_toggle, dragging, pointer>>

\* get_frame: while not self.frame_queue.empty(): frame = self.frame_queue.get_nowait()
GetFrameNext ==
  /\ app = "running" /\ ui_pc = "get_frame"
  /\ frame_queue # << >>
  /\ gf_frame' = Head(frame_queue)
  /\ frame_queue' = Tail(frame_queue)
  /\ UNCHANGED <<camera_thread, tick_active, ui_pc, last_get, preview_mode, current_frame,
                 captured_frame, cached_pixbuf, last_frame_size, alloc, screen,
                 capture_button, save_button, discard_button, guide_toggle, dragging, pointer>>

\* get_frame returns; update_frame: if frame is not None: self.current_frame = frame;
\* return True.
GetFrameReturn ==
  /\ app = "running" /\ ui_pc = "get_frame"
  /\ frame_queue = << >>
  /\ last_get' = [last_get EXCEPT !.result = gf_frame, !.done = TRUE, !.mark = offered]
  /\ current_frame' = IF gf_frame # NoFrame THEN gf_frame ELSE current_frame
  /\ gf_frame' = NoFrame
  /\ ui_pc' = "idle"
  /\ UNCHANGED <<frame_queue, camera_thread, tick_active, preview_mode, captured_frame,
                 cached_pixbuf, last_frame_size, alloc, screen, capture_button,
                 save_button, discard_button, guide_toggle, dragging, pointer>>

\* CameraView.on_capture (the button is clickable only while sensitive).
OnCapture ==
  /\ InputFree /\ capture_button
  /\ IF current_frame # NoFrame
     THEN /\ captured_frame' = current_frame
          /\ preview_mode' = TRUE
          /\ capture_button' = FALSE
          /\ save_button' = TRUE
          /\ discard_button' = TRUE
          /\ guide_toggle' = FALSE
          /\ cached_pixbuf' = NoPixbuf
     ELSE UNCHANGED <<captured_frame, preview_mode, capture_button, save_button,
                      discard_button, guide_toggle, cached_pixbuf>>
  /\ UNCHANGED <<camera_thread, tick_active, ui_pc, gf_frame, last_get, current_frame,
                 last_frame_size, alloc, screen, dragging, pointer>>

\* CameraView.reset_capture
ResetCapture ==
  /\ captured_frame' = NoFrame
  /\ preview_mode' = FALSE
  /\ capture_button' = TRUE
  /\ save_button' = FALSE
  /\ discard_button' = FALSE
  /\ guide_toggle' = TRUE
  /\ cached_pixbuf' = NoPixbuf

\* A hand-over that takes place after reset_capture: the worker is started with
\* what is left of the still.
OnPhotoTakenAfterReset(threads, frame) == Append(threads, [frame |-> NoFrame, pc |-> "start"])

\* MainWindow.on_photo_taken: a save_photo thread is started with the frame.
OnPhotoTaken(threads, frame) == Append(threads, [frame |-> frame, pc |-> "start"])

\* CameraView.on_save
OnSave ==
  /\ InputFree /\ save_button
  /\ Len(save_threads) < MaxSaveThreads
  /\ IF captured_frame # NoFrame
     THEN /\ save_threads' = OnPhotoTaken(save_threads, CvtColor(captured_frame, "BGR"))
          /\ ResetCapture
     ELSE UNCHANGED <<save_threads, captured_frame, preview_mode, capture_button,
                      save_button, discard_button, guide_toggle, cached_pixbuf>>
  /\ UNCHANGED <<camera_thread, tick_active, ui_pc, gf_frame, last_get, current_frame,
                 last_frame_size, alloc, screen, dragging, pointer>>

\* CameraView.on_discard
OnDiscard ==
  /\ InputFree /\ discard_button
  /\ ResetCapture
  /\ UNCHANGED <<camera_thread, tick_active, ui_pc, gf_frame, last_get, current_frame,
                 last_frame_size, alloc, screen, dragging, pointer>>

\* ------------------------------------------------------------- guide overlay
\* The stored guide values are thousandths of the surface; a length in pixels
\* times 1000 is the stored value times the surface size, and a quotient of
\* two such lengths is kept as numerator and denominator.

Abs(n) == IF n < 0 THEN -n ELSE n

RECURSIVE Gcd(_, _)
Gcd(a, b) == IF b = 0 THEN a ELSE Gcd(b, a % b)

\* The quotient n / d (d > 0) in lowest terms.
Reduce(n, d) == LET g == Gcd(Abs(n), d) IN << n \div g, d \div g >>

\* dx*dx + dy*dy <= 1 for dx = nx / dnx and dy = ny / dny.
InUnitCircle(nx, dnx, ny, dny) ==
  LET a == Reduce(nx, dnx)
      b == Reduce(ny, dny)
  IN a[1] * a[1] * b[2] * b[2] + b[1] * b[1] * a[2] * a[2]
       <= a[2] * a[2] * b[2] * b[2]

\* A hit test whose radii are the whole guide width and height.
HitTestWholeSize(x, y, guide_x, guide_y, guide_w, guide_h) ==
  InUnitCircle(1000 * x - guide_x, guide_w, 1000 * y - guide_y, guide_h)

\* on_button_press: dx = (event.x - guide_x) / (guide_w / 2), dy likewise,
\* dx*dx + dy*dy <= 1.
HitTest(x, y, guide_x, guide_y, guide_w, guide_h) ==
  InUnitCircle(2 * (1000 * x - guide_x), guide_w, 2 * (1000 * y - guide_y), guide_h)

\* event.x / alloc.width as a stored value.
Normalized(v, size) == (1000 * v) \div size

\* Pointer positions (x, y); an event carries one that lies on the drawing area.
Pointers == { << 2, 3 >>, << 4, 3 >>, << 5, 3 >>, << 6, 3 >>, << 8, 6 >> }
DragPointers == { << 4, 3 >>, << 6, 3 >> }
OnArea(p) == p[1] <= alloc[1] /\ p[2] <= alloc[2]

\* CameraView.on_guide_toggled (the check button is usable only while sensitive).
OnGuideToggled ==
  /\ InputFree /\ guide_toggle
  /\ LET g == ConfigSet(Glib, "guide_enabled", ~ConfigGet("guide_enabled"), now)
     IN /\ config' = g.config
        /\ timeouts' = g.timeouts
        /\ next_source' = g.next_source
  /\ save_log' = LogSet(save_log, now)
  /\ UNCHANGED <<config_file, now>>
  /\ UNCHANGED view_vars

\* CameraView.on_button_press
OnButtonPress(p) ==
  /\ InputFree
  /\ pointer' = p
  /\ IF ConfigGet("guide_enabled") /\ ~preview_mode
     THEN LET guide_x == ConfigGet("guide_x") * alloc[1]
              guide_y == ConfigGet("guide_y") * alloc[2]
              guide_w == ConfigGet("guide_width") * alloc[1]
              guide_h == ConfigGet("guide_height") * alloc[2]
          IN dragging' = IF HitTest(p[1], p[2], guide_x, guide_y, guide_w, guide_h)
                         THEN TRUE ELSE dragging
     ELSE dragging' = dragging
  /\ UNCHANGED <<camera_thread, tick_active, ui_pc, gf_frame, last_get, preview_mode,
                 current_frame, captured_frame, cached_pixbuf, last_frame_size, alloc,
                 screen, capture_button, save_button, discard_button, guide_toggle>>
  /\ UNCHANGED cfg_vars

\* CameraView.on_motion
OnMotion(p) ==
  /\ InputFree
  /\ pointer' = p
  /\ IF dragging
     THEN LET g1 == ConfigSet(Glib, "guide_x", Normalized(p[1], alloc[1]), now)
              g2 == ConfigSet(g1, "guide_y", Normalized(p[2], alloc[2]), now)
          IN /\ config' = g2.config
             /\ timeouts' = g2.timeouts
             /\ next_source' = g2.next_source
             /\ save_log' = LogSet(LogSet(save_log, now), now)
     ELSE UNCHANGED <<config, timeouts, next_source, save_log>>
  /\ UNCHANGED <<config_file, now>>
  /\ UNCHANGED <<camera_thread, tick_active, ui_pc, gf_frame, last_get, preview_mode,
                 current_frame, captured_frame, cached_pixbuf, last_frame_size, alloc,
                 screen, capture_button, save_button, discard_button, guide_toggle,
                 dragging>>

\* CameraView.on_button_release
OnButtonRelease ==
  /\ InputFree
  /\ dragging' = FALSE
  /\ UNCHANGED <<camera_thread, tick_active, ui_pc, gf_frame, last_get, preview_mode,
                 current_frame, captured_frame, cached_pixbuf, last_frame_size, alloc,
                 screen, capture_button, save_button, discard_button, guide_toggle,
                 pointer>>
  /\ UNCHANGED cfg_vars

\* main.init_camera -> CameraView.start_camera, dispatched from the idle queue.
StartCamera ==
  /\ LoopFree
  /\ idle_queue # << >> /\ Head(idle_queue).fn = "init_camera"
  /\ idle_queue' = Tail(idle_queue)
  /\ IF ~camera_thread
     THEN /\ camera_thread' = TRUE
          /\ cam_pc' = "start"
          /\ tick_active' = TRUE
     ELSE UNCHANGED <<camera_thread, cam_pc, tick_active>>
  /\ UNCHANGED <<ui_pc, gf_frame, last_get, preview_mode, current_frame, captured_frame,
                 cached_pixbuf, last_frame_size, alloc, screen, capture_button,
                 save_button, discard_button, guide_toggle, dragging, pointer>>

\* MainWindow.on_destroy: stop_camera(), then Gtk.main_quit().
OnDestroy ==
  /\ InputFree
  /\ IF camera_thread
     THEN Stop /\ camera_thread' = FALSE
     ELSE UNCHANGED <<running, camera_thread>>
  /\ app' = "quit"
  /\ UNCHANGED <<tick_active, ui_pc, gf_frame, last_get, preview_mode, current_frame,
                 captured_frame, cached_pixbuf, last_frame_size, alloc, screen,
                 capture_button, save_button, discard_button, guide_toggle, dragging, pointer>>

\* main returns after Gtk.main(): the interpreter exits and its daemon threads
\* (capture, save, encode) end wherever they are.
Exit ==
  /\ app = "quit"
  /\ app' = "exited"

\* ----------------------------------------------------------- TimelapseView

\* Values of the duration slider, in hundredths of a second (0.05 .. 0.5).
Durations == { 5, 20 }

\* A line of filelist.txt: f"file '{escaped}'" (its quoted token is kept) or
\* f"duration {duration}".
FileLine(name) == [kind |-> "file", name |-> <<"'">> \o name \o <<"'">>, duration |-> 0]
DurationLine(d) == [kind |-> "duration", name |-> << >>, duration |-> d]

\* create_timelapse_thread: for photo in photos: write file line, duration line.
RECURSIVE ScriptBody(_, _)
ScriptBody(photos, d) ==
  IF photos = << >> THEN << >>
  ELSE << FileLine(Escape(Head(photos))), DurationLine(d) >> \o ScriptBody(Tail(photos), d)

\* A script without the repeated last photo.
ScriptNoTrailer(photos, d) == ScriptBody(photos, d)

\* create_timelapse_thread: the content written to filelist.txt.
Script(photos, d) ==
  ScriptBody(photos, d)
    \o (IF photos # << >> THEN << FileLine(Escape(photos[Len(photos)])) >> ELSE << >>)

\* The encoder's diagnostics on stderr, as bytes (ASCII text of a given length).
Stderr(n) == [i \in 1..n |-> IF i % 2 = 1 THEN 101 ELSE 120]
StderrLengths == { 100, 101 }

\* bytes.decode(): the character of each byte.
Decode(bytes) ==
  [i \in 1..Len(bytes) |-> Chars[CHOOSE k \in 1..Len(Chars) : CodePoints[k] = bytes[i]]]

\* str(e) of the exception Popen raises when the encoder cannot be launched.
LaunchError == << "n", "o", "e", "x", "e" >>
\* str(e) of the exception open(list_file, 'w') raises.
OpenError == << "n", "o", "f", "i", "l", "e" >>

\* Workers running, callbacks queued and dialogs open.
Pending == Len(save_threads) + Len(encode_threads) + Len(idle_queue) + Len(modal)

\* update_photo_count: create_button.set_sensitive(count > 0)
UpdatePhotoCount == Cardinality(PhotosIn(fs[ConfigGet("photos_directory")])) > 0

\* The initial GLib.idle_add(self.update_photo_count).
IdleUpdatePhotoCount ==
  /\ LoopFree
  /\ idle_queue # << >> /\ Head(idle_queue).fn = "update_photo_count"
  /\ idle_queue' = Tail(idle_queue)
  /\ create_button' = UpdatePhotoCount
  /\ UNCHANGED <<modal, fs, filelist, wall, duration_adj, status_label, progress,
                 encode_threads, enc_done>>

\* MainWindow.check_today_photo: a dialog when a file of today exists.
IdleCheckTodayPhoto ==
  /\ LoopFree
  /\ idle_queue # << >> /\ Head(idle_queue).fn = "check_today_photo"
  /\ idle_queue' = Tail(idle_queue)
  /\ LET today == StrfDate(Instants[wall])
         existing == { f \in fs[ConfigGet("photos_directory")] : StartsWith(f, today) }
     IN modal' = IF existing # {} THEN Append(modal, "today") ELSE modal
  /\ UNCHANGED <<fs, filelist, wall, duration_adj, create_button, status_label,
                 progress, encode_threads, enc_done>>

\* The duration slider is moved.
SetDuration(d) ==
  /\ InputFree
  /\ d # duration_adj
  /\ duration_adj' = d
  /\ UNCHANGED <<idle_queue, modal, fs, filelist, wall, create_button, status_label,
                 progress, encode_threads, enc_done>>

\* TimelapseView.on_create (the button is clickable only while sensitive).
OnCreate ==
  /\ InputFree /\ create_button
  /\ Pending < MaxPending
  /\ LET photos_dir == ConfigGet("photos_directory")
         photos == Sorted(PhotosIn(fs[photos_dir]))
     IN IF Len(photos) = 0
        THEN /\ status_label' = [kind |-> "NoPhotos", text |-> << >>]
             /\ UNCHANGED <<create_button, progress, encode_threads>>
        ELSE /\ create_button' = FALSE
             /\ status_label' = [kind |-> "Creating", text |-> << >>]
             /\ progress' = 0
             /\ encode_threads' = Append(encode_threads,
                  [NoThread EXCEPT !.photos_dir = photos_dir, !.photos = photos,
                                !.duration = duration_adj, !.pc = "start"])
  /\ UNCHANGED <<idle_queue, modal, fs, filelist, wall, duration_adj, enc_done>>

\* create_timelapse_thread: output_file, then open(list_file, 'w') and the writes.
\* open may raise; the handler then posts on_timelapse_error(str(e)).
EncWriteList(i, outcome) ==
  /\ Alive /\ encode_threads[i].pc = "start"
  /\ LET t == encode_threads[i]
     IN IF outcome = "ok"
        THEN /\ fs' = [fs EXCEPT ![t.photos_dir] = @ \cup {ListFileName}]
             /\ filelist' = [filelist EXCEPT ![t.photos_dir] = Script(t.photos, t.duration)]
             /\ encode_threads' = [encode_threads EXCEPT
                                     ![i].pc = "popen", ![i].wrote = TRUE,
                                     ![i].output_file = PathJoin(t.photos_dir, VideoName(Instants[wall]))]
             /\ UNCHANGED <<idle_queue, enc_done>>
        ELSE /\ encode_threads' = Without(encode_threads, i)
             /\ enc_done' = Ended([t EXCEPT !.output_file =
                                     PathJoin(t.photos_dir, VideoName(Instants[wall]))], FALSE)
             /\ idle_queue' = Append(idle_queue, Idle("on_timelapse_error", OpenError))
             /\ UNCHANGED <<fs, filelist>>
  /\ UNCHANGED <<modal, wall, duration_adj, create_button, status_label, progress>>

\* create_timelapse_thread: Popen(cmd, cwd=photos_dir) and communicate().
\* Popen may raise (encoder not installed): the handler posts the error and
\* the clean-up below is never reached.
EncPopen(i, outcome, rc, err) ==
  /\ Alive /\ encode_threads[i].pc = "popen"
  /\ LET t == encode_threads[i]
     IN IF outcome = "launch_fails"
        THEN /\ encode_threads' = Without(encode_threads, i)
             /\ enc_done' = Ended(t, FALSE)
             /\ idle_queue' = Append(idle_queue, Idle("on_timelapse_error", LaunchError))
             /\ UNCHANGED fs
        ELSE /\ encode_threads' = [encode_threads EXCEPT
                                     ![i].pc = "cleanup", ![i].launched = TRUE,
                                     ![i].returncode = rc, ![i].stderr = err]
             /\ fs' = IF rc = 0
                      THEN [fs EXCEPT ![t.photos_dir] = @ \cup {Basename(t.output_file)}]
                      ELSE fs
             /\ UNCHANGED <<idle_queue, enc_done>>
  /\ UNCHANGED <<modal, filelist, wall, duration_adj, create_button, status_label,
                 progress>>

\* create_timelapse_thread: try: os.remove(list_file) except: pass; then the
\* result is posted with GLib.idle_add.
EncCleanup(i, remove_ok) ==
  /\ Alive /\ encode_threads[i].pc = "cleanup"
  /\ LET t == encode_threads[i]
         removes == remove_ok /\ ListFileName \in fs[t.photos_dir]
     IN /\ fs' = IF removes THEN [fs EXCEPT ![t.photos_dir] = @ \ {ListFileName}] ELSE fs
        /\ filelist' = IF removes THEN [filelist EXCEPT ![t.photos_dir] = << >>] ELSE filelist
        /\ encode_threads' = Without(encode_threads, i)
        /\ enc_done' = Ended(t, ~removes)
        /\ idle_queue' = Append(idle_queue,
             IF t.returncode = 0
             THEN Idle("on_timelapse_complete", t.output_file)
             ELSE Idle("on_timelapse_error", Decode(t.stderr)))
  /\ UNCHANGED <<modal, wall, duration_adj, create_button, status_label, progress>>

\* TimelapseView.on_timelapse_complete (os.path.basename of the output file).
OnTimelapseComplete ==
  /\ LoopFree
  /\ idle_queue # << >> /\ Head(idle_queue).fn = "on_timelapse_complete"
  /\ idle_queue' = Tail(idle_queue)
  /\ status_label' = [kind |-> "Created", text |-> Basename(Head(idle_queue).arg)]
  /\ progress' = 100
  /\ create_button' = TRUE
  /\ UNCHANGED <<modal, fs, filelist, wall, duration_adj, encode_threads, enc_done>>

\* A status text that shows the whole message.
ErrorStatusWhole(error_msg) == [kind |-> "Error", text |-> error_msg]

\* The status text of on_timelapse_error: f"Error: {error_msg[:100]}"
ErrorStatus(error_msg) == [kind |-> "Error", text |-> Take(error_msg, ErrorDisplayLen)]

\* TimelapseView.on_timelapse_error
OnTimelapseError ==
  /\ LoopFree
  /\ idle_queue # << >> /\ Head(idle_queue).fn = "on_timelapse_error"
  /\ idle_queue' = Tail(idle_queue)
  /\ status_label' = ErrorStatus(Head(idle_queue).arg)
  /\ progress' = 0
  /\ create_button' = TRUE
  /\ UNCHANGED <<modal, fs, filelist, wall, duration_adj, encode_threads, enc_done>>

\* ------------------------------------------------- MainWindow: saving photos

\* A frame handed to on_photo_taken.
SomeFrame == [seq |-> 1, w |-> 4, h |-> 3, layout |-> "BGR"]

\* MainWindow.on_photo_taken, called with a frame.
PhotoTaken(frame) ==
  /\ InputFree
  /\ Pending < MaxPending
  /\ save_threads' = OnPhotoTaken(save_threads, frame)

\* save_photo: cv2.imwrite(filename, frame) (it returns false when it cannot
\* write), then GLib.idle_add(self.show_photo_saved_dialog, filename).
SavePhoto(i, written) ==
  /\ Alive /\ save_threads[i].pc = "start"
  /\ LET photos_dir == ConfigGet("photos_directory")
         name == PhotoName(Instants[wall])
     IN /\ fs' = IF written THEN [fs EXCEPT ![photos_dir] = @ \cup {name}] ELSE fs
        /\ idle_queue' = Append(idle_queue,
             Idle("show_photo_saved_dialog", PathJoin(photos_dir, name)))
  /\ save_threads' = Without(save_threads, i)
  /\ UNCHANGED <<modal, filelist, wall, duration_adj, create_button, status_label,
                 progress, encode_threads, enc_done>>

\* MainWindow.show_photo_saved_dialog, up to dialog.run().
ShowPhotoSavedDialog ==
  /\ LoopFree
  /\ idle_queue # << >> /\ Head(idle_queue).fn = "show_photo_saved_dialog"
  /\ idle_queue' = Tail(idle_queue)
  /\ modal' = Append(modal, "saved")
  /\ UNCHANGED <<fs, filelist, wall, duration_adj, create_button, status_label,
                 progress, encode_threads, enc_done>>

\* The topmost dialog is answered: dialog.run() returns; show_photo_saved_dialog
\* goes on to timelapse_view.update_photo_count().
CloseDialog ==
  /\ LoopFree
  /\ modal # << >>
  /\ modal' = SubSeq(modal, 1, Len(modal) - 1)
  /\ create_button' = IF modal[Len(modal)] = "saved" THEN UpdatePhotoCount ELSE create_button
  /\ UNCHANGED <<idle_queue, fs, filelist, wall, duration_adj, status_label, progress,
                 encode_threads, enc_done>>

\* MainWindow.on_choose_directory with response OK and the folder chosen
\* (a cancelled dialog changes nothing).
OnChooseDirectory(new_dir) ==
  /\ InputFree
  /\ LET g == ConfigSet(Glib, "photos_directory", new_dir, now)
     IN /\ config' = g.config
        /\ timeouts' = g.timeouts
        /\ next_source' = g.next_source
        /\ create_button' = (Cardinality(PhotosIn(fs[new_dir])) > 0)
  /\ save_log' = LogSet(save_log, now)
  /\ UNCHANGED <<config_file, now, idle_queue, modal, fs, filelist, wall, duration_adj,
                 status_label, progress, encode_threads, enc_done>>

\* datetime.now() moves on to the next instant.
WallAdvance ==
  /\ Alive
  /\ wall < Len(Instants)
  /\ wall' = wall + 1

\* ---------------------------------------------------------- specifications

OnlyCam == UNCHANGED <<loop_vars, view_vars, save_threads, cfg_vars, tl_vars>>
OnlyView == UNCHANGED <<loop_vars, cam_vars, save_threads, cfg_vars, tl_vars>>
OnlyConfig == UNCHANGED <<loop_vars, cam_vars, view_vars, save_threads, tl_vars>>
OnlyTimelapse == UNCHANGED <<app, cam_vars, view_vars, save_threads, cfg_vars>>

\* The capture pipeline and the camera view, on a fresh installation.
InitCapture == InitOn(NoFile, {})

NextCapture ==
  \/ IdleUpdatePhotoCount /\ OnlyTimelapse
  \/ IdleCheckTodayPhoto /\ OnlyTimelapse
  \/ StartCamera /\ UNCHANGED <<app, modal, camera, resolution, running, frame_queue,
                                frame_rgb, produced, offered, save_threads, cfg_vars, tl_vars>>
  \/ CamStep /\ OnlyCam
  \/ UpdateFrame /\ OnlyView
  \/ UpdateFrameReturn /\ OnlyView
  \/ GetFrameNext /\ UNCHANGED <<loop_vars, cam_pc, camera, resolution, running, frame_rgb,
                                 produced, offered, save_threads, cfg_vars, tl_vars>>
  \/ GetFrameReturn /\ UNCHANGED <<loop_vars, cam_pc, camera, resolution, running, frame_rgb,
                                   produced, offered, save_threads, cfg_vars, tl_vars>>
  \/ OnDraw /\ OnlyView
  \/ \E a \in Allocations : Resize(a) /\ OnlyView
  \/ OnCapture /\ OnlyView
  \/ OnSave /\ UNCHANGED <<loop_vars, cam_vars, cfg_vars, tl_vars>>
  \/ OnDiscard /\ OnlyView
  \/ OnDestroy /\ UNCHANGED <<idle_queue, modal, cam_pc, camera, resolution, frame_queue,
                              frame_rgb, produced, offered, save_threads, cfg_vars, tl_vars>>
  \/ Exit /\ UNCHANGED <<idle_queue, modal, cam_vars, view_vars, save_threads, cfg_vars,
                         tl_vars>>

SpecCapture == InitCapture /\ [][NextCapture]_vars

\* Config under set calls, the passage of time and its deferred save.
InitConfig == \E file \in ConfigFiles : InitOn(file, {})

NextConfig ==
  \/ \E kv \in SetInputs : SetConfig(kv[1], kv[2]) /\ OnlyConfig
  \/ \E o \in {"ok", "open_fails", "dump_fails"} : DoSave(o) /\ OnlyConfig
  \/ \E dt \in TimeSteps : Advance(dt) /\ OnlyConfig

SpecConfig == InitConfig /\ [][NextConfig]_vars

\* The guide overlay with the capture pipeline and the capture, save and
\* discard buttons, on a drawing area of constant size.
OnlyGuide == UNCHANGED <<loop_vars, cam_vars, save_threads, tl_vars>>

InitGuide == InitOn(NoFile, {})

NextGuide ==
  \/ IdleUpdatePhotoCount /\ OnlyTimelapse
  \/ IdleCheckTodayPhoto /\ OnlyTimelapse
  \/ StartCamera /\ UNCHANGED <<app, modal, camera, resolution, running, frame_queue,
                                frame_rgb, produced, offered, save_threads, cfg_vars, tl_vars>>
  \/ CamStep /\ OnlyCam
  \/ UpdateFrame /\ OnlyView
  \/ UpdateFrameReturn /\ OnlyView
  \/ GetFrameNext /\ UNCHANGED <<loop_vars, cam_pc, camera, resolution, running, frame_rgb,
                                 produced, offered, save_threads, cfg_vars, tl_vars>>
  \/ GetFrameReturn /\ UNCHANGED <<loop_vars, cam_pc, camera, resolution, running, frame_rgb,
                                   produced, offered, save_threads, cfg_vars, tl_vars>>
  \/ OnCapture /\ OnlyView
  \/ OnSave /\ UNCHANGED <<loop_vars, cam_vars, cfg_vars, tl_vars>>
  \/ OnDiscard /\ OnlyView
  \/ \E p \in DragPointers : OnButtonPress(p) /\ OnlyGuide
  \/ \E p \in DragPointers : OnMotion(p) /\ OnlyGuide
  \/ OnButtonRelease /\ OnlyGuide

SpecGuide == InitGuide /\ [][NextGuide]_vars

\* The pointer handlers of the drawing area and the guide check button, with
\* the startup callbacks and a drawing area that is resized.
InitPointer == InitOn(NoFile, {})

NextPointer ==
  \/ IdleUpdatePhotoCount /\ OnlyTimelapse
  \/ IdleCheckTodayPhoto /\ OnlyTimelapse
  \/ \E a \in Allocations : Resize(a) /\ OnlyView
  \/ OnGuideToggled /\ OnlyGuide
  \/ \E p \in Pointers : OnArea(p) /\ OnButtonPress(p) /\ OnlyGuide
  \/ \E p \in Pointers : OnArea(p) /\ OnMotion(p) /\ OnlyGuide
  \/ OnButtonRelease /\ OnlyGuide

SpecPointer == InitPointer /\ [][NextPointer]_vars

OnlyStart == UNCHANGED <<app, modal, camera, resolution, running, frame_queue, frame_rgb,
                         produced, offered, save_threads, cfg_vars, tl_vars>>

\* The encode job of the timelapse view: create, the encode worker, its
\* callbacks, on the photos directory as found at startup.
InitEncode ==
  \E files \in InitialFiles : InitOn(NoFile, files)

EncodeStep ==
  \/ \E i \in DOMAIN encode_threads, o \in {"ok", "open_fails"} :
       EncWriteList(i, o) /\ OnlyTimelapse
  \/ \E i \in DOMAIN encode_threads :
       \/ EncPopen(i, "launch_fails", 0, << >>) /\ OnlyTimelapse
       \/ EncPopen(i, "exits", 0, Stderr(3)) /\ OnlyTimelapse
       \/ \E n \in StderrLengths : EncPopen(i, "exits", 1, Stderr(n)) /\ OnlyTimelapse
  \/ \E i \in DOMAIN encode_threads, ok \in BOOLEAN : EncCleanup(i, ok) /\ OnlyTimelapse

NextEncode ==
  \/ IdleUpdatePhotoCount /\ OnlyTimelapse
  \/ IdleCheckTodayPhoto /\ OnlyTimelapse
  \/ StartCamera /\ OnlyStart
  \/ CloseDialog /\ OnlyTimelapse
  \/ \E d \in Durations : SetDuration(d) /\ OnlyTimelapse
  \/ OnCreate /\ OnlyTimelapse
  \/ EncodeStep
  \/ OnTimelapseComplete /\ OnlyTimelapse
  \/ OnTimelapseError /\ OnlyTimelapse

SpecEncode == InitEncode /\ [][NextEncode]_vars

\* The encode job together with the directory chooser: the photos directory
\* holds one photo, the other directory a file that is not a photo.
InitDirectory ==
  InitFs(NoFile, { PhotoName(Instants[1]) }, { << "n", ".", "t", "x", "t" >> })

\* The encode worker with an encoder that starts and writes a short diagnostic.
DirectoryEncodeStep ==
  \/ \E i \in DOMAIN encode_threads : EncWriteList(i, "ok") /\ OnlyTimelapse
  \/ \E i \in DOMAIN encode_threads, rc \in {0, 1} :
       EncPopen(i, "exits", rc, Stderr(3)) /\ OnlyTimelapse
  \/ \E i \in DOMAIN encode_threads : EncCleanup(i, TRUE) /\ OnlyTimelapse

NextDirectory ==
  \/ IdleUpdatePhotoCount /\ OnlyTimelapse
  \/ IdleCheckTodayPhoto /\ OnlyTimelapse
  \/ StartCamera /\ OnlyStart
  \/ CloseDialog /\ OnlyTimelapse
  \/ OnCreate /\ OnlyTimelapse
  \/ DirectoryEncodeStep
  \/ OnTimelapseComplete /\ OnlyTimelapse
  \/ OnTimelapseError /\ OnlyTimelapse
  \/ \E d \in Dirs : OnChooseDirectory(d) /\ UNCHANGED <<app, cam_vars, view_vars, save_threads>>

SpecDirectory == InitDirectory /\ [][NextDirectory]_vars

\* The timelapse view together with the events that recount the photos: a
\* photo saved by the save worker, and the directory chooser.
InitTimelapse == InitOn(NoFile, {})

NextTimelapse ==
  \/ IdleUpdatePhotoCount /\ OnlyTimelapse
  \/ IdleCheckTodayPhoto /\ OnlyTimelapse
  \/ StartCamera /\ OnlyStart
  \/ CloseDialog /\ OnlyTimelapse
  \/ OnCreate /\ OnlyTimelapse
  \/ EncodeStep
  \/ OnTimelapseComplete /\ OnlyTimelapse
  \/ OnTimelapseError /\ OnlyTimelapse
  \/ PhotoTaken(SomeFrame) /\ UNCHANGED <<loop_vars, cam_vars, view_vars, cfg_vars, tl_vars>>
  \/ \E i \in DOMAIN save_threads, w \in BOOLEAN :
       SavePhoto(i, w) /\ UNCHANGED <<app, cam_vars, view_vars, cfg_vars>>
  \/ ShowPhotoSavedDialog /\ OnlyTimelapse
  \/ \E d \in Dirs : OnChooseDirectory(d) /\ UNCHANGED <<app, cam_vars, view_vars, save_threads>>

SpecTimelapse == InitTimelapse /\ [][NextTimelapse]_vars

\* ------------------------------------------------------------------ claims

\* The sets of the current burst are over: a full delay has passed since the
\* last set and no deferred save is still scheduled.
BurstQuiet ==
  /\ save_log.last_set >= 0
  /\ now - save_log.last_set >= SaveDelayMs
  /\ timeouts = {}

\* C2 (as claimed): K >= 1 set calls, each less than the 500 ms delay after
\* the previous one, produce exactly one persisted write, and that write holds
\* the in-memory state after the last call. Checked where no write failed.
C2_OneWritePerBurst ==
  (BurstQuiet /\ ~save_log.failed) =>
    /\ save_log.burst_writes = 1
    /\ config_file = Document(config.data)

\* C3 (as claimed): every set restarts the pending timer (the timeout is due a
\* full delay after the last set), and a write happens only after a full delay
\* with no set.
C3_DebounceResets ==
  /\ \A s \in timeouts : s.due = save_log.last_set + SaveDelayMs
  /\ save_log.write_gap = -1 \/ save_log.write_gap >= SaveDelayMs

\* C1 (as claimed): after N > 2 frames were offered to the channel with no
\* get_frame call in between, one get_frame call returns the most recently
\* produced frame (the one offered last before the call, or a newer one) and
\* never an older one.
C1_BoundedFreshness ==
  (last_get.done /\ last_get.n > QueueMaxSize) =>
    /\ last_get.result # NoFrame
    /\ last_get.result.seq >= last_get.at

\* C4 (as claimed): the surface painted by a draw is the scaled image of the
\* frame selected for that draw, as if it were regenerated on every draw.
C4_CacheTransparent ==
  screen.frame # NoFrame =>
    LET new == ScaledSize(screen.frame.w, screen.frame.h, screen.width, screen.height)
    IN screen.pixbuf = ScaleSimple(screen.frame, new[1], new[2])

\* stop() has been called on a started capture worker (on_destroy is its only
\* caller, and it clears camera_thread).
StopCalled == app # "running" /\ cam_pc # "unstarted"

\* C9 (as claimed): once stop() was called, the worker observes the flag at the
\* top of its loop: from there it leaves the loop instead of reading again.
C9_CooperativeStop ==
  [][(StopCalled /\ cam_pc = "loop") => cam_pc' # "read"]_vars

\* C10: the channel never holds more than 2 frames; a push is never blocked
\* (the worker at its push can always take the step), and a push on a full
\* channel leaves the channel as it was and takes the worker to the top of its
\* loop.
C10_BoundedNonBlocking ==
  /\ [](Len(frame_queue) <= QueueMaxSize)
  /\ []((cam_pc = "put" /\ Alive) => ENABLED CamPut)
  /\ [][(cam_pc = "put" /\ cam_pc' # "put" /\ Len(frame_queue) = QueueMaxSize)
          => (frame_queue' = frame_queue /\ cam_pc' = "loop")]_vars

\* C10 witness: frames 1 and 2 fill the channel, frame 3 was offered and
\* dropped, and the worker is back at the top of its loop.
C10_Witness ==
  /\ cam_pc = "loop"
  /\ offered = QueueMaxSize + 1
  /\ Len(frame_queue) = QueueMaxSize
  /\ \A i \in 1..Len(frame_queue) : frame_queue[i].seq = i

\* C5 (as claimed): at most one encode worker exists at any moment.
C5_OneEncodeJob == Len(encode_threads) <= 1

\* How the encoder's concat script reads a token: text inside single quotes is
\* taken as it is, a backslash outside quotes escapes the next character.
RECURSIVE Unquote(_, _)
Unquote(s, quoted) ==
  IF s = << >> THEN << >>
  ELSE IF quoted
    THEN IF Head(s) = "'" THEN Unquote(Tail(s), FALSE)
         ELSE << Head(s) >> \o Unquote(Tail(s), TRUE)
    ELSE IF Head(s) = "'" THEN Unquote(Tail(s), TRUE)
         ELSE IF Head(s) = "\\" /\ Len(s) >= 2
              THEN << s[2] >> \o Unquote(Tail(Tail(s)), FALSE)
              ELSE << Head(s) >> \o Unquote(Tail(s), FALSE)

\* C6: the script an encode worker has written lists its N >= 1 photos in
\* ascending lexicographic order, each file entry naming the photo and followed
\* by the duration chosen, and ends with one more file entry for the last photo
\* and no duration: 2N + 1 lines, N + 1 of them file entries and N durations.
C6_ScriptConstruction ==
  \A i \in DOMAIN encode_threads :
    LET t == encode_threads[i]
        sc == filelist[t.photos_dir]
        n == Len(t.photos)
    IN t.wrote =>
         /\ n >= 1
         /\ \A k \in 1..(n - 1) : StrLess(t.photos[k], t.photos[k + 1])
         /\ Len(sc) = 2 * n + 1
         /\ \A k \in 1..n :
              /\ sc[2 * k - 1].kind = "file"
              /\ Unquote(sc[2 * k - 1].name, FALSE) = t.photos[k]
              /\ sc[2 * k] = [kind |-> "duration", name |-> << >>, duration |-> t.duration]
         /\ sc[2 * n + 1].kind = "file"
         /\ Unquote(sc[2 * n + 1].name, FALSE) = t.photos[n]
         /\ Cardinality({ k \in 1..Len(sc) : sc[k].kind = "file" }) = n + 1
         /\ Cardinality({ k \in 1..Len(sc) : sc[k].kind = "duration" }) = n

\* C6 witness: a worker has written the script of three photos, one of them
\* with a single quote in its name.
C6_Witness ==
  \E i \in DOMAIN encode_threads :
    /\ encode_threads[i].wrote
    /\ Len(encode_threads[i].photos) = 3
    /\ \E k \in 1..3 : \E j \in 1..Len(encode_threads[i].photos[k]) :
         encode_threads[i].photos[k][j] = "'"
    /\ Len(filelist[encode_threads[i].photos_dir]) = 7

\* The result of the worker that ended last has been delivered and no other
\* job was started since.
Delivered ==
  /\ encode_threads = << >>
  /\ \A k \in 1..Len(idle_queue) :
       idle_queue[k].fn \notin {"on_timelapse_complete", "on_timelapse_error"}

C8_ScriptRemoved ==
  (encode_threads = << >> /\ enc_done.wrote /\ ~enc_done.remove_failed) =>
    ListFileName \notin fs[enc_done.photos_dir]

\* ------------------------------------------------------------ Config claims

DefaultKeys == DOMAIN DefaultData
NumericKeys == {"guide_x", "guide_y", "guide_width", "guide_height"}

\* C11: in every state of Config, whatever file it was constructed on and
\* whatever was set since, every key of the default set is in the map; when the
\* file was missing or unreadable, no value of the map is null.
C11_DefaultsComplete ==
  /\ DefaultKeys \subseteq DOMAIN config.data
  /\ save_log.found.status \in {"missing", "corrupt"} =>
       \A k \in NumericKeys : ConfigGet(k) # NoNumber

\* C11 witness: a Config constructed on a file that holds one known and one
\* unknown key, after a set, with all six default keys readable.
C11_Witness ==
  /\ "theme" \in DOMAIN save_log.found.doc
  /\ save_log.last_set >= 0
  /\ \A k \in DefaultKeys : k \in DOMAIN config.data

\* C12 (as claimed): after construction on a file that is missing or that the
\* load fails on, the map equals the defaults exactly.
C12_LoadAtomic ==
  (save_log.last_set < 0
     /\ (save_log.found.status = "missing" \/ LoadRaises(save_log.found)))
    => config.data = DefaultData

\* C13 (as claimed): the map, and every document the store has written, hold
\* only keys of the default set.
C13_UnknownKeysIgnored ==
  /\ DOMAIN config.data \subseteq DefaultKeys
  /\ (save_log.write_gap # -1 /\ config_file.status = "ok")
       => DOMAIN config_file.doc \subseteq DefaultKeys

\* C15 (as claimed): once the last set is a full delay old and no timeout is
\* due, _do_save has run since that set.
C15_WriteFollowsSet ==
  (save_log.last_set >= 0
     /\ now - save_log.last_set >= SaveDelayMs
     /\ \A s \in timeouts : s.due > now)
    => save_log.last_try >= save_log.last_set

\* -------------------------------------------------------- TimelapseView claims

\* No file of the directory has an image extension.
NoImageFile(files) ==
  \A f \in files : ~EndsWith(f, ExtJpg) /\ ~EndsWith(f, ExtPng)

\* C14: a create request made while the photos directory holds no .jpg or .png
\* file shows the no-photos message, starts no encode worker, writes no file
\* and leaves the create button enabled; no worker ever has an empty photo list.
C14_NoPhotos ==
  /\ [](\A i \in DOMAIN encode_threads : encode_threads[i].photos # << >>)
  /\ [][(OnCreate /\ NoImageFile(fs[ConfigGet("photos_directory")]))
          => /\ status_label' = [kind |-> "NoPhotos", text |-> << >>]
             /\ encode_threads' = encode_threads
             /\ idle_queue' = idle_queue
             /\ fs' = fs /\ filelist' = filelist
             /\ create_button']_vars

\* C14 witness: the no-photos message is shown for a directory that holds a
\* file, but no photo; no worker exists and the button is enabled.
C14_Witness ==
  /\ status_label.kind = "NoPhotos"
  /\ fs[ConfigGet("photos_directory")] # {}
  /\ NoImageFile(fs[ConfigGet("photos_directory")])
  /\ encode_threads = << >>
  /\ ListFileName \notin fs[ConfigGet("photos_directory")]
  /\ create_button

\* -------------------------------------------------------- guide overlay claims

\* The point p lies in the ellipse centred on the guide whose radii are the
\* stored guide width and height times the surface size, divided by k. Lengths
\* are in units of 1 / (1000 * k) pixel.
InGuideEllipse(p, k) ==
  InUnitCircle(1000 * k * p[1] - k * ConfigGet("guide_x") * alloc[1],
               ConfigGet("guide_width") * alloc[1],
               1000 * k * p[2] - k * ConfigGet("guide_y") * alloc[2],
               ConfigGet("guide_height") * alloc[2])

\* A pointer-down at p while the guide is enabled, in Live mode and not dragged.
PressWhileIdle(p) ==
  /\ OnButtonPress(p)
  /\ ConfigGet("guide_enabled") /\ ~preview_mode /\ ~dragging

\* C16 (as claimed): the pointer-down starts a drag iff p is in the ellipse
\* whose radii are the stored width and height times the surface size.
C16_HitTestAsClaimed ==
  [][\A p \in Pointers : PressWhileIdle(p) => (dragging' <=> InGuideEllipse(p, 1))]_vars

\* C16 (amended): the pointer-down starts a drag iff p is in the ellipse whose
\* radii are half the stored width and height times the surface size.
C16_HitTestHalfSize ==
  [][\A p \in Pointers : PressWhileIdle(p) => (dragging' <=> InGuideEllipse(p, 2))]_vars

\* C16 witness: on the 8 x 6 surface with the guide at its default place, a
\* pointer-down one pixel right of the centre has started a drag.
C16_Witness ==
  /\ dragging /\ pointer = << 5, 3 >>
  /\ alloc = << 8, 6 >>
  /\ ConfigGet("guide_enabled") /\ ~preview_mode
  /\ ConfigGet("guide_x") = 500 /\ ConfigGet("guide_y") = 500

\* C17 (as claimed): no step taken in Review mode changes guide_x or guide_y.
C17_NoDragInReview ==
  [][preview_mode => /\ ConfigGet("guide_x")' = ConfigGet("guide_x")
                     /\ ConfigGet("guide_y")' = ConfigGet("guide_y")]_vars

\* ------------------------------------------------------ capture view claims

OpenFailed == cam_pc \notin {"unstarted", "start"} /\ resolution = << 0, 0 >>

\* C19: when the device could not be opened, the worker is in or past its
\* finally clause, never in the loop; it has read no frame, running is False,
\* the channel is empty, no get_frame call has returned a frame, and the view
\* stays in Live mode without a frame, its capture button enabled.
C19_DeviceUnavailable ==
  OpenFailed =>
    /\ cam_pc \in {"finally", "done"}
    /\ produced = 0 /\ offered = 0 /\ ~running
    /\ frame_queue = << >>
    /\ gf_frame = NoFrame /\ last_get.result = NoFrame
    /\ current_frame = NoFrame /\ captured_frame = NoFrame
    /\ ~preview_mode /\ capture_button

\* C19 witness: the device did not open, the worker has ended and released
\* it, and the display tick has stopped after finding the worker not running.
C19_Witness ==
  /\ OpenFailed
  /\ cam_pc = "done" /\ camera = "released"
  /\ camera_thread /\ ~tick_active /\ ui_pc = "idle"
  /\ app = "running"

\* The path of a photo: the camera view's capture and save, the save_photo
\* worker and its dialog, while the wall clock moves on.
InitPhoto == InitOn(NoFile, {})

NextPhoto ==
  \/ IdleUpdatePhotoCount /\ OnlyTimelapse
  \/ IdleCheckTodayPhoto /\ OnlyTimelapse
  \/ StartCamera /\ UNCHANGED <<app, modal, camera, resolution, running, frame_queue,
                                frame_rgb, produced, offered, save_threads, cfg_vars, tl_vars>>
  \/ CamStep /\ OnlyCam
  \/ UpdateFrame /\ OnlyView
  \/ UpdateFrameReturn /\ OnlyView
  \/ GetFrameNext /\ UNCHANGED <<loop_vars, cam_pc, camera, resolution, running, frame_rgb,
                                 produced, offered, save_threads, cfg_vars, tl_vars>>
  \/ GetFrameReturn /\ UNCHANGED <<loop_vars, cam_pc, camera, resolution, running, frame_rgb,
                                   produced, offered, save_threads, cfg_vars, tl_vars>>
  \/ OnCapture /\ OnlyView
  \/ Pending < MaxPending /\ OnSave /\ UNCHANGED <<loop_vars, cam_vars, cfg_vars, tl_vars>>
  \/ OnDiscard /\ OnlyView
  \/ \E i \in DOMAIN save_threads, w \in BOOLEAN :
       SavePhoto(i, w) /\ UNCHANGED <<app, cam_vars, view_vars, cfg_vars>>
  \/ ShowPhotoSavedDialog /\ OnlyTimelapse
  \/ CloseDialog /\ OnlyTimelapse
  \/ WallAdvance /\ UNCHANGED <<loop_vars, cam_vars, view_vars, save_threads, cfg_vars, fs,
                                filelist, duration_adj, create_button, status_label,
                                progress, encode_threads, enc_done>>

SpecPhoto == InitPhoto /\ [][NextPhoto]_vars

\* The photo files of the photos directory whose name starts with the calendar
\* date of instant t.
PhotosOfDay(t) ==
  { f \in PhotosIn(fs[ConfigGet("photos_directory")]) : StartsWith(f, StrfDate(t)) }

\* C20: one photo per day: after any sequence of capture and save actions the
\* photos directory holds at most one photo file whose name starts with a given
\* calendar date.
C20_OnePhotoPerDay ==
  \A i \in DOMAIN Instants : Cardinality(PhotosOfDay(Instants[i])) <= 1

\* The capture pipeline was started and not stopped, the device opened and the
\* worker is in its read loop.
PipelineRunning ==
  /\ app = "running" /\ camera_thread /\ running
  /\ camera = "opened" /\ cam_pc \in {"loop", "read", "put"}

\* C21: live display progress: while the capture pipeline has been started and
\* not stopped, the device opened and the view is in Live mode, the display
\* tick keeps running (so that an accepted frame is eventually pulled), for
\* every interleaving of the first tick with the worker's device opening.
C21_TickKeepsRunning == (PipelineRunning /\ ~preview_mode) => tick_active

\* The capture worker against the display tick and the closing of the window.
InitStop == InitOn(NoFile, {})

NextStop ==
  \/ IdleUpdatePhotoCount /\ OnlyTimelapse
  \/ IdleCheckTodayPhoto /\ OnlyTimelapse
  \/ StartCamera /\ UNCHANGED <<app, modal, camera, resolution, running, frame_queue,
                                frame_rgb, produced, offered, save_threads, cfg_vars, tl_vars>>
  \/ CamStep /\ OnlyCam
  \/ UpdateFrame /\ OnlyView
  \/ UpdateFrameReturn /\ OnlyView
  \/ GetFrameNext /\ UNCHANGED <<loop_vars, cam_pc, camera, resolution, running, frame_rgb,
                                 produced, offered, save_threads, cfg_vars, tl_vars>>
  \/ GetFrameReturn /\ UNCHANGED <<loop_vars, cam_pc, camera, resolution, running, frame_rgb,
                                   produced, offered, save_threads, cfg_vars, tl_vars>>
  \/ OnDestroy /\ UNCHANGED <<idle_queue, modal, cam_pc, camera, resolution, frame_queue,
                              frame_rgb, produced, offered, save_threads, cfg_vars, tl_vars>>
  \/ Exit /\ UNCHANGED <<idle_queue, modal, cam_vars, view_vars, save_threads, cfg_vars,
                         tl_vars>>

SpecStop == InitStop /\ [][NextStop]_vars

\* C22: the camera device is never released while a read is in flight: the
\* device is released only by the capture worker, in its finally clause after
\* its last read, a released device is never read again, and no step other
\* than the worker's open and release acts on the device, whenever stop() and
\* stop_camera() arrive.
C22_ReleaseAfterLastRead ==
  /\ [](camera = "released" => cam_pc = "done")
  /\ [][camera' # camera => (CamStep /\ cam_pc \in {"start", "finally"})]_vars
  /\ [][(camera' = "released" /\ camera # "released")
          => (cam_pc = "finally" /\ cam_pc' = "done")]_vars

\* C22 witness: stop_camera() has arrived while a read was in flight, and the
\* device is still open.
C22_Witness ==
  /\ app = "quit" /\ ~camera_thread /\ ~running
  /\ cam_pc = "read" /\ camera = "opened" /\ produced = 1

\* A save_photo worker ends in this step, and the file it was to write does not
\* exist afterwards.
SaveFailed ==
  /\ Len(save_threads') < Len(save_threads)
  /\ PhotoName(Instants[wall]) \notin fs'[ConfigGet("photos_directory")]

\* C23: worker errors are delivered, never silent: a photo-save worker whose
\* image write failed delivers exactly one result to the main loop, and that
\* result is a failure, not the success callback.
C23_SaveFailureDelivered ==
  [][SaveFailed =>
       /\ Len(idle_queue') = Len(idle_queue) + 1
       /\ idle_queue'[Len(idle_queue')].fn # "show_photo_saved_dialog"]_vars

\* C24: a config save error is not fatal to persistence: the pending flag never
\* stays set without a scheduled timer (so that a set made after a failed write
\* still schedules a new deferred write), and a failed write leaves the
\* in-memory map unchanged.
C24_PendingHasTimer ==
  /\ [](config.save_pending => \E s \in timeouts : s.id = config.save_timer)
  /\ [][(save_log'.failed /\ ~save_log.failed) => config'.data = config.data]_vars

\* Capture, save and discard with the capture pipeline running, and the
\* save_photo worker with its dialog, at one wall-clock instant.
InitSave == InitOn(NoFile, {})

NextSave ==
  \/ IdleUpdatePhotoCount /\ OnlyTimelapse
  \/ IdleCheckTodayPhoto /\ OnlyTimelapse
  \/ StartCamera /\ OnlyStart
  \/ CamStep /\ OnlyCam
  \/ UpdateFrame /\ OnlyView
  \/ UpdateFrameReturn /\ OnlyView
  \/ GetFrameNext /\ UNCHANGED <<loop_vars, cam_pc, camera, resolution, running, frame_rgb,
                                 produced, offered, save_threads, cfg_vars, tl_vars>>
  \/ GetFrameReturn /\ UNCHANGED <<loop_vars, cam_pc, camera, resolution, running, frame_rgb,
                                   produced, offered, save_threads, cfg_vars, tl_vars>>
  \/ OnCapture /\ OnlyView
  \/ Pending < MaxPending /\ OnSave /\ UNCHANGED <<loop_vars, cam_vars, cfg_vars, tl_vars>>
  \/ OnDiscard /\ OnlyView
  \/ \E i \in DOMAIN save_threads, w \in BOOLEAN :
       SavePhoto(i, w) /\ UNCHANGED <<app, cam_vars, view_vars, cfg_vars>>
  \/ ShowPhotoSavedDialog /\ OnlyTimelapse
  \/ CloseDialog /\ OnlyTimelapse

SpecSave == InitSave /\ [][NextSave]_vars

\* C25: the photo handed to the save worker by save() is the frame frozen at
\* the preceding capture(): the still is the frame current at capture and stays
\* the same through Review mode whatever the worker produces; the worker is
\* started by save() with that image in BGR order; and the image a worker holds
\* is not changed by the reset to Live mode or by later frames until it is
\* written.
C25_SavedIsCaptured ==
  /\ [][(~preview_mode /\ preview_mode') => captured_frame' = current_frame]_vars
  /\ [][(preview_mode /\ preview_mode') => captured_frame' = captured_frame]_vars
  /\ [][Len(save_threads') > Len(save_threads) =>
          /\ preview_mode /\ ~preview_mode' /\ captured_frame # NoFrame
          /\ Len(save_threads') = Len(save_threads) + 1
          /\ LET photo == save_threads'[Len(save_threads')].frame
             IN /\ photo.seq = captured_frame.seq
                /\ << photo.w, photo.h >> = << captured_frame.w, captured_frame.h >>
                /\ photo.layout = "BGR"]_vars
  /\ [][Len(save_threads') >= Len(save_threads) =>
          \A i \in DOMAIN save_threads : save_threads'[i].frame = save_threads[i].frame]_vars

\* C25 witness: a still of frame 1 was saved while the worker went on to frame
\* 3; the view is back in Live mode and the save worker holds frame 1.
C25_Witness ==
  /\ ~preview_mode /\ captured_frame = NoFrame
  /\ Len(save_threads) = 1 /\ save_threads[1].frame.seq = 1
  /\ produced = 3 /\ current_frame.seq = 1

====
